---- MODULE Spec2Model ----
(***************************************************************************)
(* BoxBoxBox: the Streamlit dashboard (app.py) and the standalone chart    *)
(* script (pit_strategy.py).  The model covers the derivation of tyre      *)
(* stints, pit stops and the fastest lap from a session's lap table, the   *)
(* session_state fields the "Extract Data" handler commits, and the hover  *)
(* texts of the "Stints & Pit Stops" chart.                                *)
(*                                                                         *)
(* Times are integers in centiseconds (a timedelta of 22.4 s is 2240).     *)
(* A cell of a DataFrame is <<v>> when it holds v and NA (the empty tuple) *)
(* when it is missing (None / NaN / NaT).  A Python value handled outside  *)
(* a DataFrame is tagged: PyNone, PyNaN, <<"float", d>>.  A session_state  *)
(* field is Unset while it holds None and Some(v) once it holds v.         *)
(***************************************************************************)
EXTENDS Integers, Sequences, FiniteSets, TLC

VARIABLES
    program,            \* the program that was started: "app" or "script"
    source,             \* the lap table the data provider holds (session.laps)
                        \* for the year, circuit and session type selected
    weather_data,       \* whether the provider's session.weather_data has rows
    session_loaded,     \* st.session_state.session_loaded
    session_obj,        \* st.session_state.session_obj (identity of a Session)
    laps,               \* st.session_state.laps
    driver_info,        \* st.session_state.driver_info
    stints,             \* st.session_state.stints
    pit_markers,        \* st.session_state.pit_markers
    pit_lookup,         \* st.session_state.pit_lookup
    fastest,            \* st.session_state.fastest
    available_drivers,  \* st.session_state.available_drivers
    weather_df,         \* st.session_state.weather_df
    messages,           \* the st.success / st.error call of the last run of app.py:
                        \* <<"success">>, or <<"error", e>> with e the kind of the
                        \* exception shown (the provider's, or a KeyError)
    tab1,               \* traces of the "Stints & Pit Stops" chart, last run
    driver_a,           \* st.session_state.driver_a: Unset while the key is absent,
    driver_b,           \* st.session_state.driver_b  Some("None") while it holds None
    tab3,               \* what the "Lap Delta" tab read and drew, last run
    ps                  \* outcome of a run of pit_strategy.py

vars == <<program, source, weather_data, session_loaded, session_obj, laps, driver_info,
          stints, pit_markers, pit_lookup, fastest, available_drivers, weather_df,
          messages, tab1, driver_a, driver_b, tab3, ps>>

persisted == <<session_loaded, session_obj, laps, driver_info, stints, pit_markers,
               pit_lookup, fastest, available_drivers, weather_df>>

-----------------------------------------------------------------------------
(* Bounds of the model *)

MaxRecs == 3        \* lap records in a lap table without pit timestamps
MaxPitRecs == 2     \* lap records in a lap table with pit timestamps
MaxUILaps == 1      \* laps of a driver in a session the user can switch to

-----------------------------------------------------------------------------
(* Values *)

NA == <<>>
PyNone == <<"None">>
PyNaN == <<"nan">>
PyFloat(d) == <<"float", d>>

Unset == <<>>
Some(v) == <<v>>
Val(x) == x[1]

Drivers == {"A", "B"}
DriverOrd == [d \in Drivers |-> IF d = "A" THEN 1 ELSE 2]

Compounds == {<<"SOFT">>, <<"MEDIUM">>, NA}
LapTimes == {NA, <<8950>>, <<8980>>}

\* <<PitInTime, PitOutTime>> of a lap record
PitPairs == {<<NA, NA>>, <<<<2240>>, NA>>, <<NA, <<2240>>>>,
             <<<<0>>, <<2240>>>>, <<<<2240>>, <<2240>>>>, <<<<2240>>, <<0>>>>}

\* the cells of one lap record besides its key, in three families: compound
\* runs with timed and untimed laps, lap times, pit timestamps
StintShapes == {[Compound |-> c, LapTime |-> t, PitInTime |-> NA, PitOutTime |-> NA] :
                   c \in Compounds, t \in {NA, <<8950>>}}
TimeShapes == {[Compound |-> <<"SOFT">>, LapTime |-> t, PitInTime |-> NA, PitOutTime |-> NA] :
                   t \in LapTimes}
PitShapes == {[Compound |-> <<"SOFT">>, LapTime |-> t, PitInTime |-> p[1], PitOutTime |-> p[2]] :
                   t \in {NA, <<8950>>}, p \in PitPairs}

DriverLaps(d, n, Shapes) ==
    {IF n = 0 THEN <<>> ELSE
     [i \in 1..n |-> [Driver |-> d, LapNumber |-> i, Compound |-> s[i].Compound,
                      LapTime |-> s[i].LapTime, PitInTime |-> s[i].PitInTime,
                      PitOutTime |-> s[i].PitOutTime]] : s \in [1..n -> Shapes]}

\* lap tables: at most one record per (driver, lap), ordered by driver, then lap
Tables(Shapes, max) ==
    UNION {{a \o b : a \in DriverLaps("A", n[1], Shapes), b \in DriverLaps("B", n[2], Shapes)} :
             n \in {m \in (0..max) \X (0..max) : m[1] + m[2] <= max}}

LapTables ==
    Tables(StintShapes, MaxRecs) \cup Tables(TimeShapes, MaxRecs)
        \cup Tables(PitShapes, MaxPitRecs)

\* lap tables of the sessions the user can switch between: each driver with
\* up to MaxUILaps laps, every lap with a lap time
UIShapes == {[Compound |-> <<"SOFT">>, LapTime |-> <<8950>>, PitInTime |-> NA, PitOutTime |-> NA]}

UITables ==
    UNION {{a \o b : a \in DriverLaps("A", n[1], UIShapes), b \in DriverLaps("B", n[2], UIShapes)} :
             n \in (0..MaxUILaps) \X (0..MaxUILaps)}

-----------------------------------------------------------------------------
(* Table helpers *)

Rows(t) == {t[i] : i \in 1..Len(t)}

RECURSIVE SetMin(_)
SetMin(S) ==
    LET x == CHOOSE y \in S : TRUE
    IN  IF S = {x} THEN x
        ELSE LET m == SetMin(S \ {x}) IN IF x < m THEN x ELSE m

RECURSIVE SetMax(_)
SetMax(S) ==
    LET x == CHOOSE y \in S : TRUE
    IN  IF S = {x} THEN x
        ELSE LET m == SetMax(S \ {x}) IN IF x > m THEN x ELSE m

-----------------------------------------------------------------------------
(* Stint derivation *)

\* groupby('Abbreviation')['Compound'].shift(): the compound of the driver's
\* previous row, NA on the driver's first row
ShiftCompound(t, i) ==
    LET prev == {j \in 1..(i - 1) : t[j].Driver = t[i].Driver}
    IN  IF prev = {} THEN NA ELSE t[SetMax(prev)].Compound

\* pandas' elementwise != : a missing operand compares unequal to everything
Ne(x, y) == x = NA \/ y = NA \/ x # y

CompoundChange(t, i) == IF Ne(t[i].Compound, ShiftCompound(t, i)) THEN 1 ELSE 0

\* the change flag taken as the stint index, without the running sum
StintNoCumsum(t, i) == CompoundChange(t, i)

\* groupby('Abbreviation')['CompoundChange'].cumsum()
RECURSIVE Stint(_, _)
Stint(t, i) ==
    LET prev == {j \in 1..(i - 1) : t[j].Driver = t[i].Driver}
    IN  CompoundChange(t, i) + (IF prev = {} THEN 0 ELSE Stint(t, SetMax(prev)))

WithStint(t) ==
    IF Len(t) = 0 THEN <<>> ELSE
    [i \in 1..Len(t) |->
        [Driver |-> t[i].Driver, LapNumber |-> t[i].LapNumber, Compound |-> t[i].Compound,
         LapTime |-> t[i].LapTime, PitInTime |-> t[i].PitInTime,
         PitOutTime |-> t[i].PitOutTime, Abbreviation |-> t[i].Driver,
         CompoundChange |-> CompoundChange(t, i), Stint |-> Stint(t, i)]]

HasLapTime(r) == r.LapTime # NA

\* no dropna: every row is kept, as pit_strategy.py does
KeepUntimed(t) == t

\* laps.dropna(subset=['LapTime'])
DropNaLapTime(t) == SelectSeq(t, HasLapTime)

\* groupby(['Abbreviation', 'Stint', 'Compound']): rows with a missing key cell
\* belong to no group
GroupKeys(l) ==
    {<<r.Abbreviation, r.Stint, r.Compound>> : r \in {q \in Rows(l) : q.Compound # NA}}

GroupLaps(l, k) ==
    {r.LapNumber : r \in {q \in Rows(l) :
        q.Abbreviation = k[1] /\ q.Stint = k[2] /\ q.Compound = k[3]}}

StintsOf(l) ==
    {[Abbreviation |-> k[1], Stint |-> k[2], Compound |-> k[3],
      StartLap |-> SetMin(GroupLaps(l, k)), EndLap |-> SetMax(GroupLaps(l, k))] :
        k \in GroupKeys(l)}

-----------------------------------------------------------------------------
(* Pit stops *)

HasPitOut(r) == r.PitOutTime # NA

\* (PitOutTime - PitInTime).dt.total_seconds() of one row: a missing operand
\* gives a missing (NaN) cell
PitDuration(r) ==
    IF r.PitOutTime = NA \/ r.PitInTime = NA THEN NA
    ELSE <<r.PitOutTime[1] - r.PitInTime[1]>>

\* laps.loc[laps['PitOutTime'].notnull()] with the PitDuration column
PitStops(l) ==
    LET sel == SelectSeq(l, HasPitOut)
    IN  IF Len(sel) = 0 THEN <<>>
        ELSE [i \in 1..Len(sel) |-> sel[i] @@ [PitDuration |-> PitDuration(sel[i])]]

TyreColor(c) ==
    IF c = <<"Soft">> THEN "red"
    ELSE IF c = <<"Medium">> THEN "yellow"
    ELSE IF c = <<"Hard">> THEN "white"
    ELSE IF c = <<"Intermediate">> THEN "green"
    ELSE IF c = <<"Wet">> THEN "blue"
    ELSE "gray"

PitMarkers(p) ==
    {[Driver |-> r.Driver, LapNumber |-> r.LapNumber, Compound |-> r.Compound,
      Abbreviation |-> r.Driver, TyreColor |-> TyreColor(r.Compound)] : r \in Rows(p)}

\* a float cell as the Python value to_dict() hands out
CellToPy(c) == IF c = NA THEN PyNaN ELSE PyFloat(c[1])

\* pit_stops.set_index(['Driver', 'LapNumber'])['PitDuration'].to_dict():
\* the last row of a key wins
PitLookup(p) ==
    IF Len(p) = 0 THEN <<>> ELSE
    [k \in {<<r.Driver, r.LapNumber>> : r \in Rows(p)} |->
        LET last == SetMax({i \in 1..Len(p) : <<p[i].Driver, p[i].LapNumber>> = k})
        IN  CellToPy(p[last].PitDuration)]

DictGet(d, k) == IF k \in DOMAIN d THEN d[k] ELSE PyNone

\* Python truth value of None, nan or a float
Truthy(v) == v # PyNone /\ v # PyFloat(0)

Abs(x) == IF x < 0 THEN -x ELSE x

\* f"{duration:.2f}s" of nan or of a float given in centiseconds:
\* <<sign, whole seconds, hundredths, "s">>
FormatSeconds(v) ==
    IF v = PyNaN THEN <<"nans">>
    ELSE <<IF v[2] < 0 THEN "-" ELSE "", Abs(v[2]) \div 100, Abs(v[2]) % 100, "s">>

get_pit_info_from_lookup(lookup, abbr, lap) ==
    LET duration == DictGet(lookup, <<abbr, lap>>)
    IN  IF Truthy(duration) THEN FormatSeconds(duration) ELSE PyNone

-----------------------------------------------------------------------------
(* Fastest lap *)

\* one lap of the least lap time only, ties dropped
FastestOneOnly(l) ==
    LET timed == {r \in Rows(l) : r.LapTime # NA}
    IN  IF timed = {} THEN {}
        ELSE {CHOOSE r \in timed : \A q \in timed : r.LapTime[1] <= q.LapTime[1]}

\* laps.loc[laps['LapTime'] == laps['LapTime'].min()]: min() skips missing
\* cells, and a comparison with a missing value is False
Fastest(l) ==
    LET timed == {r \in Rows(l) : r.LapTime # NA}
    IN  IF timed = {} THEN {}
        ELSE {r \in timed : r.LapTime[1] = SetMin({q.LapTime[1] : q \in timed})}

\* sorted(laps['Abbreviation'].unique())
RECURSIVE SortedDrivers(_)
SortedDrivers(S) ==
    IF S = {} THEN <<>>
    ELSE LET d == CHOOSE x \in S : \A y \in S : DriverOrd[x] <= DriverOrd[y]
         IN  <<d>> \o SortedDrivers(S \ {d})

AvailableDrivers(l) == SortedDrivers({r.Abbreviation : r \in Rows(l)})

\* the roster: session.drivers / session.get_driver
DriverInfo ==
    [d \in Drivers |-> [Abbreviation |-> d, FullName |-> d, TeamName |-> "Team", Number |-> DriverOrd[d]]]

-----------------------------------------------------------------------------
(* app.py: the "Stints & Pit Stops" tab *)

\* str.title() of a compound name
Title(c) ==
    IF c = "SOFT" THEN "Soft" ELSE IF c = "MEDIUM" THEN "Medium" ELSE c

StintTraces(st, lookup) ==
    {[Abbreviation |-> s.Abbreviation, StartLap |-> s.StartLap, EndLap |-> s.EndLap,
      tyre |-> IF s.Compound # NA THEN Title(s.Compound[1]) ELSE "Unknown",
      Pit |-> get_pit_info_from_lookup(lookup, s.Abbreviation, s.EndLap)] : s \in st}

MarkerTraces(pm, lookup) ==
    {[Abbreviation |-> m.Abbreviation, LapNumber |-> m.LapNumber,
      duration |-> get_pit_info_from_lookup(lookup, m.Abbreviation, m.LapNumber)] : m \in pm}

FastestTraces(f) ==
    {[Abbreviation |-> r.Abbreviation, LapNumber |-> r.LapNumber, LapTime |-> r.LapTime] :
        r \in f}

\* what one run of the script draws below the button, from session_state
Render(loaded, l, st, pm, lookup, f, show_pit_stops) ==
    IF loaded /\ l # Unset
    THEN [shown |-> TRUE,
          stints |-> StintTraces(Val(st), Val(lookup)),
          markers |-> IF show_pit_stops THEN MarkerTraces(Val(pm), Val(lookup)) ELSE {},
          fastest |-> FastestTraces(Val(f))]
    ELSE [shown |-> FALSE, stints |-> {}, markers |-> {}, fastest |-> {}]

-----------------------------------------------------------------------------
(* app.py: the "Lap Delta" tab *)

Range(s) == {s[i] : i \in 1..Len(s)}

\* list.index of a member, counted from 1
IndexOf(s, v) == CHOOSE i \in 1..Len(s) : s[i] = v

\* "if 'driver_a' not in st.session_state": the first driver, None without one
FirstDriverA(held, avail) ==
    IF held # Unset THEN held
    ELSE Some(IF Len(avail) > 0 THEN avail[1] ELSE "None")

\* "if 'driver_b' not in st.session_state": the second driver, else the first
FirstDriverB(held, avail) ==
    IF held # Unset THEN held
    ELSE Some(IF Len(avail) > 1 THEN avail[2]
              ELSE IF Len(avail) > 0 THEN avail[1] ELSE "None")

\* the index argument of each selectbox, counted from 1
IndexA(held, avail) ==
    IF Val(held) \in Range(avail) THEN IndexOf(avail, Val(held)) ELSE 1

IndexB(held, avail) ==
    IF Val(held) \in Range(avail) THEN IndexOf(avail, Val(held))
    ELSE IF Len(avail) > 1 THEN 2 ELSE 1

\* st.selectbox: the option the user picked for this run, else the one at index
Selectbox(options, index, pick) ==
    IF pick = "default" THEN options[index] ELSE pick

\* the selection is not written back: session_state keeps what it held
KeepHeldSelection(held, chosen) == held

\* st.session_state.driver_a = driver_a (and driver_b)
StoreSelection(held, chosen) == Some(chosen)

\* LapNumber of pd.merge(laps_a, laps_b, on='LapNumber')
Merged(l, a, b) ==
    {r.LapNumber : r \in {q \in Rows(l) : q.Abbreviation = a}}
        \cap {r.LapNumber : r \in {q \in Rows(l) : q.Abbreviation = b}}

\* one run of the tab: the two session_state keys after it, and in tab what
\* the tab read from them (was_a, was_b), the drivers it compared (a, b) and
\* what it showed; "-" where the run did not get that far
LapDelta(loaded, l, avail, held_a, held_b, pick_a, pick_b) ==
    IF ~(loaded /\ l # Unset)
    THEN [driver_a |-> held_a, driver_b |-> held_b,
          tab |-> [kind |-> "hidden", was_a |-> "-", was_b |-> "-", a |-> "-", b |-> "-"]]
    ELSE
    LET first_a == FirstDriverA(held_a, avail)
        first_b == FirstDriverB(held_b, avail)
    IN  IF Len(avail) = 0
        THEN [driver_a |-> first_a, driver_b |-> first_b,
              tab |-> [kind |-> "nodrivers", was_a |-> "-", was_b |-> "-",
                       a |-> "-", b |-> "-"]]
        ELSE
        LET a == Selectbox(avail, IndexA(first_a, avail), pick_a)
            b == Selectbox(avail, IndexB(first_b, avail), pick_b)
        IN  [driver_a |-> StoreSelection(first_a, a),
             driver_b |-> StoreSelection(first_b, b),
             tab |-> [kind |-> IF Merged(Val(l), a, b) # {} THEN "delta" ELSE "nooverlap",
                      was_a |-> Val(first_a), was_b |-> Val(first_b), a |-> a, b |-> b]]

-----------------------------------------------------------------------------
(* app.py: state after the first run, before any click *)

\* what the provider's weather_data and the checkboxes are in a run
WeatherCases == {TRUE}
ShowPitStops == {TRUE}

\* session_state and the page after the first run of a new UI session
FirstRun ==
    /\ session_loaded = FALSE
    /\ session_obj = Unset
    /\ laps = Unset
    /\ driver_info = Unset
    /\ stints = Unset
    /\ pit_markers = Unset
    /\ pit_lookup = Unset
    /\ fastest = Unset
    /\ available_drivers = <<>>
    /\ weather_df = Unset
    /\ messages = <<>>
    /\ tab1 = Render(FALSE, Unset, Unset, Unset, Unset, Unset, TRUE)
    /\ driver_a = Unset
    /\ driver_b = Unset
    /\ tab3 = LapDelta(FALSE, Unset, <<>>, Unset, Unset, "default", "default").tab
    /\ ps = [done |-> FALSE]

Init ==
    /\ program \in {"app", "script"}
    /\ source \in LapTables
    /\ weather_data \in WeatherCases
    /\ FirstRun

\* fastf1.get_session builds a new Session object on every call: an identity
\* other than that of the object session_state holds
NewSession(held) == IF held = Some("Session1") THEN "Session2" ELSE "Session1"

\* the steps of the handler at which the data provider can raise: the session
\* lookup, session.load(), the driver roster, session.laps
FailPoints == {"none", "get_session", "load", "drivers", "laps"}

\* "if not pit_stops.empty" before the PitDuration column is added
AddsPitDuration(sel) == Len(sel) # 0

\* pit_lookup read off the PitDuration column without the emptiness test
AlwaysReadsPitDuration(sel) == TRUE

\* "if not pit_stops.empty" before pit_lookup is read off the PitDuration column
ReadsPitDuration(sel) == Len(sel) # 0

\* a run of app.py with the "Extract Data" button clicked
ExtractData(fail, show_pit_stops) ==
    LET session  == NewSession(session_obj)
        l        == DropNaLapTime(WithStint(source))
        sel      == SelectSeq(l, HasPitOut)
        p        == PitStops(l)
        \* ['PitDuration'] of a frame without that column raises KeyError
        keyerror == ReadsPitDuration(sel) /\ ~AddsPitDuration(sel)
    IN
    /\ program = "app"
    /\ IF fail \in {"get_session", "load"}
       THEN /\ UNCHANGED persisted
            /\ messages' = <<"error", "provider">>
       ELSE IF fail \in {"drivers", "laps"} \/ keyerror
       THEN /\ session_obj' = Some(session)
            /\ UNCHANGED <<session_loaded, laps, driver_info, stints, pit_markers,
                           pit_lookup, fastest, available_drivers, weather_df>>
            /\ messages' = <<"error", IF fail = "none" THEN "KeyError" ELSE "provider">>
       ELSE /\ session_obj' = Some(session)
            /\ session_loaded' = TRUE
            /\ laps' = Some(l)
            /\ driver_info' = Some(DriverInfo)
            /\ stints' = Some(StintsOf(l))
            /\ pit_markers' = Some(PitMarkers(p))
            /\ pit_lookup' = Some(IF ReadsPitDuration(sel) THEN PitLookup(p) ELSE <<>>)
            /\ fastest' = Some(Fastest(l))
            /\ available_drivers' = AvailableDrivers(l)
            /\ weather_df' = IF weather_data THEN Some("weather") ELSE Unset
            /\ messages' = <<"success">>
    /\ tab1' = Render(session_loaded', laps', stints', pit_markers', pit_lookup',
                      fastest', show_pit_stops)
    /\ LET t3 == LapDelta(session_loaded', laps', available_drivers',
                          driver_a, driver_b, "default", "default")
       IN  driver_a' = t3.driver_a /\ driver_b' = t3.driver_b /\ tab3' = t3.tab
    /\ UNCHANGED <<program, source, weather_data, ps>>

\* what a run without a click draws, with the user's picks in the selectboxes
Draw(show_pit_stops, pick_a, pick_b) ==
    /\ messages' = <<>>
    /\ tab1' = Render(session_loaded, laps, stints, pit_markers, pit_lookup,
                      fastest, show_pit_stops)
    /\ LET t3 == LapDelta(session_loaded, laps, available_drivers,
                          driver_a, driver_b, pick_a, pick_b)
       IN  driver_a' = t3.driver_a /\ driver_b' = t3.driver_b /\ tab3' = t3.tab

\* the run starts from fresh session_state keys, as on the first run
RerunClearsSnapshot(show_pit_stops) ==
    /\ program = "app"
    /\ session_loaded' = FALSE
    /\ session_obj' = Unset
    /\ laps' = Unset
    /\ driver_info' = Unset
    /\ stints' = Unset
    /\ pit_markers' = Unset
    /\ pit_lookup' = Unset
    /\ fastest' = Unset
    /\ available_drivers' = <<>>
    /\ weather_df' = Unset
    /\ messages' = <<>>
    /\ tab1' = Render(FALSE, Unset, Unset, Unset, Unset, Unset, show_pit_stops)
    /\ tab3' = LapDelta(FALSE, Unset, <<>>, driver_a, driver_b, "default", "default").tab
    /\ UNCHANGED <<program, source, weather_data, driver_a, driver_b, ps>>

\* a run of app.py without a click (a checkbox or another widget changed)
Rerun(show_pit_stops) ==
    /\ program = "app"
    /\ Draw(show_pit_stops, "default", "default")
    /\ UNCHANGED <<program, source, weather_data, ps>>
    /\ UNCHANGED persisted

\* a run of app.py after the user picked driver d in the selectbox "Select
\* Driver A" (box "a") or "Select Driver B" (box "b") of the Lap Delta tab
SelectDriver(box, d, show_pit_stops) ==
    /\ program = "app"
    /\ tab3.kind \in {"delta", "nooverlap"}
    /\ d \in Range(available_drivers)
    /\ Draw(show_pit_stops, IF box = "a" THEN d ELSE "default",
                            IF box = "b" THEN d ELSE "default")
    /\ UNCHANGED <<program, source, weather_data, ps>>
    /\ UNCHANGED persisted

\* a run of app.py after the user changed the year, the circuit or the
\* session type: the provider would now hand out lap table t and weather w
SelectSession(t, w, show_pit_stops) ==
    /\ program = "app"
    /\ source' = t
    /\ weather_data' = w
    /\ <<t, w>> # <<source, weather_data>>
    /\ Draw(show_pit_stops, "default", "default")
    /\ UNCHANGED <<program, ps>>
    /\ UNCHANGED persisted

-----------------------------------------------------------------------------
(* pit_strategy.py *)

get_pit_info(lookup, abbr, lap) ==
    LET duration == DictGet(lookup, <<abbr, lap>>)
    IN  IF Truthy(duration) THEN FormatSeconds(duration) ELSE PyNone

\* one run of the script on the session's lap table
RunPitStrategy ==
    LET l      == WithStint(source)
        p      == PitStops(source)
        lookup == PitLookup(p)
        st     == StintsOf(l)
    IN
    /\ program = "script"
    /\ ps' = [done |-> TRUE,
              laps |-> l,
              stints |-> {[Abbreviation |-> s.Abbreviation, Stint |-> s.Stint,
                           Compound |-> s.Compound, StartLap |-> s.StartLap,
                           EndLap |-> s.EndLap,
                           PitStop |-> get_pit_info(lookup, s.Abbreviation, s.EndLap)] :
                             s \in st},
              pit_markers |-> PitMarkers(p),
              pit_lookup |-> lookup]
    /\ UNCHANGED <<program, source, weather_data, messages, tab1,
                   driver_a, driver_b, tab3>>
    /\ UNCHANGED persisted

-----------------------------------------------------------------------------

\* one session selected throughout, no pick in the Lap Delta selectboxes
Next ==
    \/ \E fail \in FailPoints, sp \in ShowPitStops : ExtractData(fail, sp)
    \/ \E sp \in ShowPitStops : Rerun(sp)
    \/ RunPitStrategy

Spec == Init /\ [][Next]_vars

\* the dashboard with the session selection and the Lap Delta selectboxes in
\* use, over the lap tables of UITables
InitUI ==
    /\ program = "app"
    /\ source \in UITables
    /\ weather_data \in BOOLEAN
    /\ FirstRun

NextUI ==
    \/ \E fail \in FailPoints, sp \in ShowPitStops : ExtractData(fail, sp)
    \/ \E sp \in ShowPitStops : Rerun(sp)
    \/ \E box \in {"a", "b"}, d \in Drivers, sp \in ShowPitStops : SelectDriver(box, d, sp)
    \/ \E t \in UITables, w \in BOOLEAN, sp \in ShowPitStops : SelectSession(t, w, sp)

SpecUI == InitUI /\ [][NextUI]_vars

-----------------------------------------------------------------------------
(* Properties *)

TimedRows == {r \in Rows(source) : r.LapTime # NA}

\* the stints of st whose [StartLap, EndLap] holds lap record r of their driver
StintsHolding(st, r) ==
    {s \in st : s.Abbreviation = r.Driver /\ s.StartLap <= r.LapNumber
                                        /\ r.LapNumber <= s.EndLap}

CoveredOnce(st) ==
    /\ \A s \in st : s.StartLap <= s.EndLap
    /\ \A r \in TimedRows : Cardinality(StintsHolding(st, r)) = 1

\* C1: every stint has StartLap <= EndLap, and every lap that has a lap time
\* lies in the [StartLap, EndLap] of exactly one stint of its driver, laps of
\* a missing compound included (dashboard and script).
C1_EveryTimedLapInOneStint ==
    /\ session_loaded => CoveredOnce(Val(stints))
    /\ ps.done => CoveredOnce(ps.stints)

StintMonotone(l) ==
    \A i, j \in 1..Len(l) :
        (l[i].Abbreviation = l[j].Abbreviation /\ l[i].LapNumber < l[j].LapNumber)
            => l[i].Stint <= l[j].Stint

FirstLapIsChange(l) ==
    \A i \in 1..Len(l) :
        (\A r \in Rows(source) : r.Driver = l[i].Driver => l[i].LapNumber <= r.LapNumber)
            => l[i].CompoundChange = 1 /\ l[i].Stint = 1

\* C2: for every driver the stint index is non-decreasing over the driver's
\* laps in increasing lap number, and the driver's first lap counts as a
\* compound change (dashboard and script).
C2_StintIndexNonDecreasing ==
    /\ session_loaded => StintMonotone(Val(laps)) /\ FirstLapIsChange(Val(laps))
    /\ ps.done => StintMonotone(ps.laps) /\ FirstLapIsChange(ps.laps)

C2_Witness ==
    /\ session_loaded
    /\ \E i, j \in 1..Len(Val(laps)) :
          /\ Val(laps)[i].Abbreviation = Val(laps)[j].Abbreviation
          /\ Val(laps)[i].LapNumber < Val(laps)[j].LapNumber
          /\ Val(laps)[i].Stint < Val(laps)[j].Stint

LapKeys(rows) == {<<r.Driver, r.LapNumber>> : r \in rows}

\* C3: the fastest-lap output is exactly the set of laps whose lap time is the
\* least among the laps that have one; it is non-empty when such a lap exists.
C3_FastestIsExactlyTheMinimum ==
    session_loaded =>
        /\ LapKeys(Val(fastest)) =
             LapKeys({r \in TimedRows : \A q \in TimedRows : r.LapTime[1] <= q.LapTime[1]})
        /\ TimedRows # {} => Val(fastest) # {}

C3_Witness ==
    /\ session_loaded
    /\ Cardinality(Val(fastest)) >= 2
    /\ \E r \in TimedRows : <<r.Driver, r.LapNumber>> \notin LapKeys(Val(fastest))

PitEventsAt(d, lap) ==
    {r \in Rows(source) : r.Driver = d /\ r.LapNumber = lap /\ r.PitOutTime # NA}

\* a duration in centiseconds as seconds with two decimals
TwoDecimals(d) == <<IF d < 0 THEN "-" ELSE "", Abs(d) \div 100, Abs(d) % 100, "s">>

PitReported(d, lap, shown) ==
    /\ \A r \in PitEventsAt(d, lap) :
          r.PitInTime # NA => shown = TwoDecimals(r.PitOutTime[1] - r.PitInTime[1])
    /\ PitEventsAt(d, lap) = {} => shown = PyNone

\* C4: the pit stop reported with a stint is the duration of the pit event of
\* (driver, EndLap), in seconds with two decimals, when that event has a
\* duration, and nothing when there is no such event (dashboard and script).
C4_StintReportsPitOfEndLap ==
    /\ session_loaded =>
          \A t \in tab1.stints : PitReported(t.Abbreviation, t.EndLap, t.Pit)
    /\ ps.done =>
          \A s \in ps.stints : PitReported(s.Abbreviation, s.EndLap, s.PitStop)

DurationsNonNegative(lookup) ==
    \A k \in DOMAIN lookup : lookup[k] # PyNaN => lookup[k][2] >= 0

\* C5: a pit duration derived from a lap record with both timestamps is >= 0
\* (dashboard and script).
C5_PitDurationNonNegative ==
    /\ session_loaded => DurationsNonNegative(Val(pit_lookup))
    /\ ps.done => DurationsNonNegative(ps.pit_lookup)

\* C6: a lap (with a lap time) that has a pit-out but no pit-in timestamp has
\* a pit marker, and the pit-duration lookup of (driver, lap) returns None.
C6_MissingPitInReportsNone ==
    session_loaded =>
        \A r \in TimedRows :
            (r.PitOutTime # NA /\ r.PitInTime = NA) =>
                /\ \E m \in Val(pit_markers) :
                      m.Abbreviation = r.Driver /\ m.LapNumber = r.LapNumber
                /\ get_pit_info_from_lookup(Val(pit_lookup), r.Driver, r.LapNumber) = PyNone

\* C7: a click that ends in the error message leaves every persisted
\* session_state field as it was.
C7_FailedClickCommitsNothing ==
    [][Len(messages') = 2 => UNCHANGED persisted]_vars

\* C8: with the lap range (2, 3) and the drivers {"A"} selected, the stints
\* come from the laps in the range and of the selected drivers only: no stint
\* lies wholly outside the range, and no stint is of another driver.
C8_RangeFilterApplied ==
    session_loaded =>
        \A s \in Val(stints) : s.EndLap >= 2 /\ s.StartLap <= 3 /\ s.Abbreviation = "A"

DriversWithoutLapTime ==
    {d \in Drivers : /\ \E r \in Rows(source) : r.Driver = d
                     /\ \A r \in Rows(source) : r.Driver = d => r.LapTime = NA}

AbsentFrom(d, st, pm, lookup) ==
    /\ \A s \in st : s.Abbreviation # d
    /\ \A m \in pm : m.Abbreviation # d
    /\ \A k \in DOMAIN lookup : k[1] # d

C10_EmptyTableIsNoError ==
    (program = "app" /\ Len(source) = 0) =>
        /\ messages # <<>> => messages \in {<<"success">>, <<"error", "provider">>}
        /\ messages = <<"success">> => session_loaded
        /\ session_loaded =>
              /\ Val(stints) = {}
              /\ Val(pit_markers) = {}
              /\ DOMAIN Val(pit_lookup) = {}
              /\ Val(fastest) = {}
              /\ Val(laps) = <<>>

C10_Witness ==
    /\ Len(source) = 0
    /\ session_loaded
    /\ messages = <<"success">>

snapshot == <<laps, driver_info, stints, pit_markers, pit_lookup, fastest,
              available_drivers, weather_df>>

\* the eight fields as one extraction derives them from lap table t and weather w
ExtractedFrom(t, w) ==
    LET l == DropNaLapTime(WithStint(t))
        p == PitStops(l)
    IN  <<Some(l), Some(DriverInfo), Some(StintsOf(l)), Some(PitMarkers(p)),
          Some(IF Len(p) = 0 THEN <<>> ELSE PitLookup(p)), Some(Fastest(l)),
          AvailableDrivers(l), IF w THEN Some("weather") ELSE Unset>>

\* C11: a run that ends in the success message leaves laps, driver_info,
\* stints, pit_markers, pit_lookup, fastest, available_drivers and weather_df
\* all as derived from the session selected in that run, and a run without a
\* click (a toggle, a selectbox, another session selected) changes none of them.
C11_SnapshotReplacedWholesale ==
    [][/\ messages' = <<"success">> => snapshot' = ExtractedFrom(source', weather_data')
       /\ messages' = <<>> => UNCHANGED snapshot]_vars

\* a successful extraction has replaced the snapshot of another roster (the
\* Lap Delta tab still read a driver of the earlier one) and left weather_df None
C11_Witness ==
    /\ messages = <<"success">>
    /\ tab3.was_a \in Drivers
    /\ tab3.was_a \notin Range(available_drivers)
    /\ weather_df = Unset

\* two stints of one driver with no stint of the driver between them by index
ConsecutiveStints(st) ==
    {p \in st \X st :
        /\ p[1].Abbreviation = p[2].Abbreviation
        /\ p[1].Stint < p[2].Stint
        /\ ~\E u \in st : /\ u.Abbreviation = p[1].Abbreviation
                          /\ p[1].Stint < u.Stint /\ u.Stint < p[2].Stint}

\* C12: two stints of a driver that are consecutive by stint index never have
\* the same compound, also when laps without a lap time lie between them.
C12_ConsecutiveStintsDiffer ==
    session_loaded =>
        \A p \in ConsecutiveStints(Val(stints)) : p[1].Compound # p[2].Compound

\* C13: whenever the Lap Delta tab compares two drivers, driver_a and driver_b
\* of session_state are the drivers it compares and both are members of
\* available_drivers, whatever session_state held for them before the run.
C13_SelectionsInRoster ==
    tab3.kind \in {"delta", "nooverlap"} =>
        /\ Val(driver_a) \in Range(available_drivers)
        /\ Val(driver_b) \in Range(available_drivers)
        /\ tab3.a = Val(driver_a)
        /\ tab3.b = Val(driver_b)

\* a delta drawn in a run that found a driver of an earlier roster in driver_a
C13_Witness ==
    /\ tab3.kind = "delta"
    /\ tab3.was_a \in Drivers
    /\ tab3.was_a \notin Range(available_drivers)
    /\ Val(driver_a) \in Range(available_drivers)

====
